---------------------------- MODULE Spec2Model ----------------------------
(***************************************************************************)
(* State-machine model of the deck store of openclaw-deck                  *)
(* (src/src/lib/gateway-config.ts, lines 127-784): the zustand store that  *)
(* keeps one AgentSession per column and reconciles gateway events,        *)
(* sendMessage continuations and chat.history results into it.             *)
(*                                                                         *)
(* Conventions                                                             *)
(*  - A JavaScript object with string keys (Record<string, AgentSession>)   *)
(*    is a sequence of entries [key, val] in insertion order, which is the *)
(*    order Object.keys() enumerates.                                      *)
(*  - A string of text is a sequence of symbols: a symbol is one character *)
(*    (" " is whitespace) or one occurrence of a sentinel word such as     *)
(*    "HEARTBEAT_OK" or "NO_REPLY". Delta chunks hold characters only, so  *)
(*    Len is the length of the string.                                     *)
(*  - A RunId is a positive number; NoRun (0) is null/undefined.           *)
(*  - A session that has no `messages` property (an object made by         *)
(*    spreading undefined) has hasMessages = FALSE.                        *)
(***************************************************************************)
EXTENDS Integers, Sequences, FiniteSets, TLC

VARIABLES
    sessions,          \* store.sessions: ordered entries [key, val]
    agents,            \* store.config.agents (ids only), an array
    columnOrder,       \* store.columnOrder
    client,            \* store.client: "null" or "client"
    clientConnected,   \* client.connected of the GatewayClient
    gatewayConnected,  \* store.gatewayConnected
    pendingRuns,       \* agent ids whose sendMessage awaits client.runAgent
    pendingHistory,    \* chatHistory requests in flight: [agentId, live]
    issuedRuns,        \* runIds the gateway has returned from runAgent
    now,               \* Date.now()
    threw,             \* the handler that raised in the last step, or "none"
    chatsDelivered     \* chat events handed to handleGatewayEvent, modulo 2

vars == <<sessions, agents, columnOrder, client, clientConnected,
          gatewayConnected, pendingRuns, pendingHistory, issuedRuns, now, threw,
          chatsDelivered>>

-----------------------------------------------------------------------------
(* Bounds of the model *)

MaxMsgs == 3
MaxText == 1
MaxPending == 2
MaxDeltas == 2

(* Program constants *)

RecencyWindow == 5000
HistoryLimit == 50

-----------------------------------------------------------------------------
(* Value spaces *)

AgentIds == {"main", "a"}
DefaultRoute == "main"
RunIds == {1, 2}
NoRun == 0
TickMs == RecencyWindow \div 2
ClockValues == {0, TickMs, 2 * TickMs}
Statuses == {"idle", "thinking", "streaming", "tool_use", "error", "disconnected"}
NoCompaction == [beforeTokens |-> 0, afterTokens |-> 0, droppedMessages |-> 0]
NoUsage == [totalTokens |-> -1]

-----------------------------------------------------------------------------
(* Sequences and text *)

RECURSIVE SumLen(_)
SumLen(ss) == IF ss = <<>> THEN 0 ELSE Len(Head(ss)) + SumLen(Tail(ss))

RECURSIVE Join(_)
Join(ss) == IF ss = <<>> THEN <<>> ELSE Head(ss) \o Join(Tail(ss))

IsSpace(c) == c = " "

RECURSIVE TrimStart(_)
TrimStart(t) ==
    IF t # <<>> /\ IsSpace(Head(t)) THEN TrimStart(Tail(t)) ELSE t

RECURSIVE TrimEnd(_)
TrimEnd(t) ==
    IF t # <<>> /\ IsSpace(t[Len(t)]) THEN TrimEnd(SubSeq(t, 1, Len(t) - 1)) ELSE t

Trim(t) == TrimEnd(TrimStart(t))

\* The words /HEARTBEAT_OK|heartbeat/i and /NO_REPLY/i find
HeartbeatWords == {"HEARTBEAT_OK", "heartbeat", "Heartbeat"}
NoReplyWords == {"NO_REPLY", "no_reply"}

Mentions(t, words) == \E i \in 1..Len(t) : t[i] \in words

\* /HEARTBEAT_OK|heartbeat|NO_REPLY/i.test(text)
HistoryNoisePattern(text) == Mentions(text, HeartbeatWords \cup NoReplyWords)

\* /HEARTBEAT_OK|heartbeat/i.test(text)
ChatNoisePattern(text) == Mentions(text, HeartbeatWords)

\* content: an array of typed parts, a plain string, or absent
RECURSIVE TextParts(_)
TextParts(parts) ==
    IF parts = <<>> THEN <<>>
    ELSE IF Head(parts).type = "text" /\ Head(parts).text # <<>>
         THEN <<Head(parts).text>> \o TextParts(Tail(parts))
         ELSE TextParts(Tail(parts))

ExtractText(content) ==
    IF content.kind = "array" THEN Join(TextParts(content.parts))
    ELSE IF content.kind = "string" THEN content.text
    ELSE <<>>

-----------------------------------------------------------------------------
(* JavaScript objects keyed by strings *)

RECURSIVE Keys(_)
Keys(obj) == IF obj = <<>> THEN <<>> ELSE <<Head(obj).key>> \o Keys(Tail(obj))

KeySet(obj) == {obj[i].key : i \in 1..Len(obj)}

Has(obj, k) == k \in KeySet(obj)

Get(obj, k) == obj[CHOOSE i \in 1..Len(obj) : obj[i].key = k].val

\* { ...obj, [k]: v }
Put(obj, k, v) ==
    IF Has(obj, k)
    THEN [i \in 1..Len(obj) |-> IF obj[i].key = k THEN [key |-> k, val |-> v] ELSE obj[i]]
    ELSE Append(obj, [key |-> k, val |-> v])

\* const { [k]: _, ...rest } = obj
RECURSIVE Without(_, _)
Without(obj, k) ==
    IF obj = <<>> THEN <<>>
    ELSE IF Head(obj).key = k THEN Without(Tail(obj), k)
         ELSE <<Head(obj)>> \o Without(Tail(obj), k)

RECURSIVE FilterOut(_, _)
FilterOut(seq, x) ==
    IF seq = <<>> THEN <<>>
    ELSE IF Head(seq) = x THEN FilterOut(Tail(seq), x)
         ELSE <<Head(seq)>> \o FilterOut(Tail(seq), x)

Range(seq) == {seq[i] : i \in 1..Len(seq)}


-----------------------------------------------------------------------------
(* Messages and sessions *)

NoCount == 0 - 1    \* a session object without a tokenCount property

Message(role, text, t, streaming, runId) ==
    [role |-> role, text |-> text, timestamp |-> t, streaming |-> streaming,
     runId |-> runId, announcement |-> role = "announcement",
     compaction |-> NoCompaction]

createSession(agentId) ==
    [agentId |-> agentId, status |-> "idle", messages |-> <<>>, hasMessages |-> TRUE,
     activeRunId |-> NoRun, tokenCount |-> 0, connected |-> FALSE, usage |-> NoUsage]

\* {} : what spreading an undefined session yields
EmptyObject ==
    [agentId |-> "undefined", status |-> "undefined", messages |-> <<>>,
     hasMessages |-> FALSE, activeRunId |-> NoRun, tokenCount |-> NoCount,
     connected |-> FALSE, usage |-> NoUsage]

\* { ...S[agentId] }
Spread(S, agentId) == IF Has(S, agentId) THEN Get(S, agentId) ELSE EmptyObject

\* session.messages.some((m) => m.runId === runId)
HasRun(msgs, runId) == \E i \in 1..Len(msgs) : msgs[i].runId = runId

StreamingRuns(msgs) == {msgs[i].runId : i \in {j \in 1..Len(msgs) : msgs[j].streaming}}

\* "agent:main:<columnId>".split(":") ; parts[2] ?? parts[1] ?? "main"
ResolveAgentId(parts) ==
    IF Len(parts) >= 3 THEN parts[3]
    ELSE IF Len(parts) >= 2 THEN parts[2]
    ELSE DefaultRoute

SessionKeyOf(agentId) == <<"agent", "main", agentId>>

-----------------------------------------------------------------------------
(* Store operations on the sessions object: each takes the current          *)
(* sessions S and yields the sessions the set() call stores.                *)

\* setAgentStatus writing the status to every session of the registry
setAgentStatusAll(S, agentId, status) ==
    LET T == Put(S, agentId, [Spread(S, agentId) EXCEPT !.status = status]) IN
    [i \in 1..Len(T) |-> [T[i] EXCEPT !.val.status = status]]

setAgentStatus(S, agentId, status) ==
    Put(S, agentId, [Spread(S, agentId) EXCEPT !.status = status])

\* appendMessageChunk with the chunk put in front of the text
appendMessageChunkPrepend(S, agentId, runId, chunk) ==
    IF ~Has(S, agentId) \/ ~Get(S, agentId).hasMessages THEN S
    ELSE LET session == Get(S, agentId)
             messages == [i \in 1..Len(session.messages) |->
                            LET msg == session.messages[i] IN
                            IF msg.runId = runId /\ msg.streaming
                            THEN [msg EXCEPT !.text = chunk \o msg.text]
                            ELSE msg]
         IN Put(S, agentId, [session EXCEPT !.messages = messages,
                                            !.tokenCount = session.tokenCount + Len(chunk)])

\* appendMessageChunk appending to the streaming messages of every run
appendMessageChunkAnyRun(S, agentId, runId, chunk) ==
    IF ~Has(S, agentId) \/ ~Get(S, agentId).hasMessages THEN S
    ELSE LET session == Get(S, agentId)
             messages == [i \in 1..Len(session.messages) |->
                            LET msg == session.messages[i] IN
                            IF msg.streaming
                            THEN [msg EXCEPT !.text = msg.text \o chunk]
                            ELSE msg]
         IN Put(S, agentId, [session EXCEPT !.messages = messages,
                                            !.tokenCount = session.tokenCount + Len(chunk)])

\* appendMessageChunk appending to sealed messages of the run as well
appendMessageChunkSealed(S, agentId, runId, chunk) ==
    IF ~Has(S, agentId) \/ ~Get(S, agentId).hasMessages THEN S
    ELSE LET session == Get(S, agentId)
             messages == [i \in 1..Len(session.messages) |->
                            LET msg == session.messages[i] IN
                            IF msg.runId = runId
                            THEN [msg EXCEPT !.text = msg.text \o chunk]
                            ELSE msg]
         IN Put(S, agentId, [session EXCEPT !.messages = messages,
                                            !.tokenCount = session.tokenCount + Len(chunk)])

appendMessageChunk(S, agentId, runId, chunk) ==
    IF ~Has(S, agentId) \/ ~Get(S, agentId).hasMessages THEN S
    ELSE LET session == Get(S, agentId)
             messages == [i \in 1..Len(session.messages) |->
                            LET msg == session.messages[i] IN
                            IF msg.runId = runId /\ msg.streaming
                            THEN [msg EXCEPT !.text = msg.text \o chunk]
                            ELSE msg]
         IN Put(S, agentId, [session EXCEPT !.messages = messages,
                                            !.tokenCount = session.tokenCount + Len(chunk)])

\* finalizeMessage with the flag flipped instead of cleared
finalizeMessageFlip(S, agentId, runId) ==
    IF ~Has(S, agentId) \/ ~Get(S, agentId).hasMessages THEN S
    ELSE LET session == Get(S, agentId)
             messages == [i \in 1..Len(session.messages) |->
                            LET msg == session.messages[i] IN
                            IF msg.runId = runId
                            THEN [msg EXCEPT !.streaming = ~msg.streaming]
                            ELSE msg]
         IN Put(S, agentId, [session EXCEPT !.messages = messages,
                                            !.activeRunId = NoRun,
                                            !.status = "idle"])

\* finalizeMessage leaving activeRunId as it is
finalizeMessageKeepRun(S, agentId, runId) ==
    IF ~Has(S, agentId) \/ ~Get(S, agentId).hasMessages THEN S
    ELSE LET session == Get(S, agentId)
             messages == [i \in 1..Len(session.messages) |->
                            LET msg == session.messages[i] IN
                            IF msg.runId = runId
                            THEN [msg EXCEPT !.streaming = FALSE]
                            ELSE msg]
         IN Put(S, agentId, [session EXCEPT !.messages = messages,
                                            !.status = "idle"])

finalizeMessage(S, agentId, runId) ==
    IF ~Has(S, agentId) \/ ~Get(S, agentId).hasMessages THEN S
    ELSE LET session == Get(S, agentId)
             messages == [i \in 1..Len(session.messages) |->
                            LET msg == session.messages[i] IN
                            IF msg.runId = runId
                            THEN [msg EXCEPT !.streaming = FALSE]
                            ELSE msg]
         IN Put(S, agentId, [session EXCEPT !.messages = messages,
                                            !.activeRunId = NoRun,
                                            !.status = "idle"])

-----------------------------------------------------------------------------
(* handleGatewayEvent: the result of one call is [sessions, threw], threw  *)
(* saying whether the call raised a TypeError (the sessions are then those  *)
(* of the last set() that completed).                                       *)

Done(S) == [sessions |-> S, threw |-> FALSE]
Raise(S) == [sessions |-> S, threw |-> TRUE]

\* lifecycleStart giving every placeholder the role assistant
lifecycleStartAssistant(S, agentId, runId, t) ==
    IF ~Has(S, agentId) THEN Done(setAgentStatus(S, agentId, "thinking"))
    ELSE LET session == Get(S, agentId) IN
         IF ~session.hasMessages THEN Raise(S)
         ELSE IF HasRun(session.messages, runId)
         THEN Done(setAgentStatus(S, agentId, "thinking"))
         ELSE LET placeholderMsg == Message("assistant", <<>>, t, TRUE, runId)
                  S1 == Put(S, agentId,
                            [session EXCEPT !.messages = Append(session.messages, placeholderMsg),
                                            !.activeRunId = runId])
              IN Done(setAgentStatus(S1, agentId, "thinking"))

\* case "agent", stream "lifecycle", phase "start"
lifecycleStart(S, agentId, runId, t) ==
    IF ~Has(S, agentId) THEN Done(setAgentStatus(S, agentId, "thinking"))
    ELSE LET session == Get(S, agentId) IN
         IF ~session.hasMessages THEN Raise(S)     \* undefined.some(...)
         ELSE IF HasRun(session.messages, runId)
         THEN Done(setAgentStatus(S, agentId, "thinking"))
         ELSE LET isAnnouncement == session.status = "idle"
                  placeholderMsg ==
                      Message(IF isAnnouncement THEN "announcement" ELSE "assistant",
                              <<>>, t, TRUE, runId)
                  S1 == Put(S, agentId,
                            [session EXCEPT !.messages = Append(session.messages, placeholderMsg),
                                            !.activeRunId = runId])
              IN Done(setAgentStatus(S1, agentId, "thinking"))

\* case "agent"
handleAgent(S, e, t) ==
    LET agentId == ResolveAgentId(e.sessionKey) IN
    IF e.stream = "assistant" /\ e.delta # <<>>
    THEN Done(setAgentStatus(appendMessageChunk(S, agentId, e.runId, e.delta),
                             agentId, "streaming"))
    ELSE IF e.stream = "lifecycle"
    THEN IF e.phase = "start" THEN lifecycleStart(S, agentId, e.runId, t)
         ELSE IF e.phase = "end" THEN Done(finalizeMessage(S, agentId, e.runId))
         ELSE Done(S)
    ELSE IF e.stream = "tool_use"
    THEN Done(setAgentStatus(S, agentId, "tool_use"))
    ELSE Done(S)

\* case "presence": e.agents is the entries of payload.agents, e.hasAgents
\* whether the payload has the field
RECURSIVE applyPresence(_, _)
applyPresence(S, entries) ==
    IF entries = <<>> THEN S
    ELSE LET id == Head(entries).key
             info == Head(entries).val
             S1 == IF Has(S, id)
                   THEN Put(S, id, [Get(S, id) EXCEPT
                            !.connected = info.online,
                            !.status = IF info.online THEN @ ELSE "disconnected"])
                   ELSE S
         IN applyPresence(S1, Tail(entries))

handlePresence(S, e) ==
    IF e.hasAgents THEN Done(applyPresence(S, e.agents)) ELSE Done(S)

\* handleCompaction with beforeTokens and afterTokens exchanged
handleCompactionSwapped(S, e, t) ==
    LET agentId == ResolveAgentId(e.sessionKey)
        compactionMsg ==
            [Message("compaction", <<>>, t, FALSE, NoRun) EXCEPT
                !.compaction = [beforeTokens |-> e.afterTokens,
                                afterTokens |-> e.beforeTokens,
                                droppedMessages |-> e.droppedMessages]]
    IN IF ~Has(S, agentId) THEN Done(S)
       ELSE LET session == Get(S, agentId) IN
            IF ~session.hasMessages THEN Raise(S)
            ELSE Done(Put(S, agentId,
                     [session EXCEPT !.messages = Append(session.messages, compactionMsg)]))

\* case "compaction"
handleCompaction(S, e, t) ==
    LET agentId == ResolveAgentId(e.sessionKey)
        compactionMsg ==
            [Message("compaction", <<>>, t, FALSE, NoRun) EXCEPT
                !.compaction = [beforeTokens |-> e.beforeTokens,
                                afterTokens |-> e.afterTokens,
                                droppedMessages |-> e.droppedMessages]]
    IN IF ~Has(S, agentId) THEN Done(S)
       ELSE LET session == Get(S, agentId) IN
            IF ~session.hasMessages THEN Raise(S)   \* [...undefined, msg]
            ELSE Done(Put(S, agentId,
                     [session EXCEPT !.messages = Append(session.messages, compactionMsg)]))

\* handleUsage never lowering the token count
handleUsageMax(S, e) ==
    LET agentId == ResolveAgentId(e.sessionKey) IN
    IF ~e.hasUsage \/ ~Has(S, agentId) THEN Done(S)
    ELSE Done(Put(S, agentId, [Get(S, agentId) EXCEPT
                    !.usage = e.usage,
                    !.tokenCount = IF @ > e.usage.totalTokens THEN @ ELSE e.usage.totalTokens]))

\* case "sessions.usage"
handleUsage(S, e) ==
    LET agentId == ResolveAgentId(e.sessionKey) IN
    IF ~e.hasUsage \/ ~Has(S, agentId) THEN Done(S)
    ELSE Done(Put(S, agentId, [Get(S, agentId) EXCEPT
                    !.usage = e.usage,
                    !.tokenCount = e.usage.totalTokens]))

\* Dedup: the last message has identical text and is younger than 5 seconds
recentDuplicateInclusive(msgs, text, t) ==
    /\ msgs # <<>>
    /\ msgs[Len(msgs)].text = text
    /\ t - msgs[Len(msgs)].timestamp <= RecencyWindow

recentDuplicate(msgs, text, t) ==
    /\ msgs # <<>>
    /\ msgs[Len(msgs)].text = text
    /\ t - msgs[Len(msgs)].timestamp < RecencyWindow

\* case "chat"
handleChat(S, e, t) ==
    LET agentId == ResolveAgentId(e.sessionKey) IN
    IF ~Has(S, agentId) THEN Done(S)
    ELSE IF e.state # "final" THEN Done(S)
    ELSE IF ~e.hasMessage THEN Done(S)
    ELSE LET session == Get(S, agentId)
             role == e.role
             text == ExtractText(e.content)
         IN IF Trim(text) = <<>> THEN Done(S)
            ELSE IF ChatNoisePattern(text) THEN Done(S)
            ELSE IF role = "tool" \/ role = "function" THEN Done(S)
            ELSE IF ~session.hasMessages THEN Raise(S)   \* undefined.some / undefined.length
            ELSE IF e.runId # NoRun /\ HasRun(session.messages, e.runId) THEN Done(S)
            ELSE IF recentDuplicate(session.messages, text, t) THEN Done(S)
            ELSE IF role = "assistant" \/ role = "system"
            THEN Done(Put(S, agentId,
                     [session EXCEPT !.messages =
                         Append(session.messages, Message("announcement", text, t, FALSE, e.runId))]))
            ELSE Done(S)

handleGatewayEvent(S, e, t) ==
    CASE e.event = "agent" -> handleAgent(S, e, t)
      [] e.event = "presence" -> handlePresence(S, e)
      [] e.event = "tick" -> Done(S)
      [] e.event = "compaction" -> handleCompaction(S, e, t)
      [] e.event = "sessions.usage" -> handleUsage(S, e)
      [] e.event = "chat" -> handleChat(S, e, t)
      [] OTHER -> Done(S)

-----------------------------------------------------------------------------
(* chat.history *)

\* A raw transcript entry: role ("" when absent), content, timestamp (0 when
\* absent) and the __openclaw.kind marker ("" when absent).
parseHistoryMessages(raw, t) ==
    LET RECURSIVE parse(_)
        parse(rest) ==
            IF rest = <<>> THEN <<>>
            ELSE LET msg == Head(rest)
                     role == msg.role
                     text == ExtractText(msg.content)
                     more == parse(Tail(rest))
                 IN IF role = "" THEN more
                    ELSE IF role \in {"tool", "toolresult", "function"} THEN more
                    ELSE IF msg.kind = "compaction" THEN more
                    ELSE IF Trim(text) = <<>> THEN more
                    ELSE IF HistoryNoisePattern(text) THEN more
                    ELSE IF role \notin {"user", "assistant", "system"} THEN more
                    ELSE <<Message(IF role = "system" THEN "announcement" ELSE role,
                                   text,
                                   IF msg.timestamp = 0 THEN t ELSE msg.timestamp,
                                   FALSE, NoRun)>> \o more
    IN parse(raw)

\* commitHistory without the late-write check
commitHistoryLate(S, agentId, historyMsgs) ==
    IF ~Has(S, agentId) THEN S
    ELSE Put(S, agentId, [Get(S, agentId) EXCEPT !.messages = historyMsgs])

\* commitHistory putting the history in front of the messages present
commitHistoryMerge(S, agentId, historyMsgs) ==
    IF ~Has(S, agentId) THEN S
    ELSE Put(S, agentId, [Get(S, agentId) EXCEPT !.messages = historyMsgs \o @])

\* The set() of the chatHistory continuation
commitHistory(S, agentId, historyMsgs) ==
    IF ~Has(S, agentId) THEN S
    ELSE IF Len(Get(S, agentId).messages) > 0 THEN S
    ELSE Put(S, agentId, [Get(S, agentId) EXCEPT !.messages = historyMsgs])

\* .then(...).catch(...) of client.chatHistory: a TypeError raised while
\* reading session.messages.length is caught and logged
historyLoaded(S, agentId, raw, t) ==
    LET historyMsgs == parseHistoryMessages(raw, t) IN
    IF historyMsgs = <<>> THEN S
    ELSE IF Has(S, agentId) /\ ~Get(S, agentId).hasMessages THEN S
    ELSE commitHistory(S, agentId, historyMsgs)

\* onConnection(true): mark every session connected, then walk
\* Object.keys(sessions) issuing chatHistory for the empty ones. The walk
\* stops with a TypeError at a session that has no messages array.
\* markConnected resetting the status of every session as well
markConnectedReset(S) ==
    [i \in 1..Len(S) |->
        [key |-> S[i].key, val |-> [S[i].val EXCEPT !.connected = TRUE, !.status = "idle"]]]

markConnected(S) ==
    [i \in 1..Len(S) |-> [key |-> S[i].key, val |-> [S[i].val EXCEPT !.connected = TRUE]]]

RECURSIVE historyWalk(_)
historyWalk(S) ==
    IF S = <<>> THEN [fetch |-> <<>>, threw |-> FALSE]
    ELSE IF ~Head(S).val.hasMessages THEN [fetch |-> <<>>, threw |-> TRUE]
    ELSE LET more == historyWalk(Tail(S)) IN
         IF Len(Head(S).val.messages) > 0 THEN more
         ELSE [fetch |-> <<Head(S).key>> \o more.fetch, threw |-> more.threw]

HistoryRequest(agentId) == [agentId |-> agentId, deltaSeen |-> FALSE, liveText |-> FALSE]

RECURSIVE HistoryRequests(_)
HistoryRequests(ids) ==
    IF ids = <<>> THEN <<>>
    ELSE <<HistoryRequest(Head(ids))>> \o HistoryRequests(Tail(ids))

RemoveAt(seq, i) == SubSeq(seq, 1, i - 1) \o SubSeq(seq, i + 1, Len(seq))

-----------------------------------------------------------------------------
(* Inputs: the payloads the gateway and the user can deliver *)

AbsentKey == <<>>    \* no sessionKey in the payload: the default route

Chunk == <<"x">>

AgentEvt(key, runId, stream, delta, phase) ==
    [event |-> "agent", runId |-> runId, sessionKey |-> key,
     stream |-> stream, delta |-> delta, phase |-> phase]

Delta(key, runId) == AgentEvt(key, runId, "assistant", Chunk, "")
LifecycleStart(key, runId) == AgentEvt(key, runId, "lifecycle", <<>>, "start")
LifecycleEnd(key, runId) == AgentEvt(key, runId, "lifecycle", <<>>, "end")
ToolUse(key, runId) == AgentEvt(key, runId, "tool_use", <<>>, "")

\* Agent events the switch gives no effect: an empty delta, another phase,
\* another stream
InertAgentEvents(keys) ==
    {AgentEvt(key, 1, "assistant", <<>>, "") : key \in keys}
    \cup {AgentEvt(key, 1, "lifecycle", <<>>, "error") : key \in keys}
    \cup {AgentEvt(key, 1, "thinking", <<>>, "") : key \in keys}

RunEvents(keys) ==
    {Delta(key, r) : key \in keys, r \in RunIds}
    \cup {LifecycleStart(key, r) : key \in keys, r \in RunIds}
    \cup {LifecycleEnd(key, r) : key \in keys, r \in RunIds}
    \cup {ToolUse(key, r) : key \in keys, r \in RunIds}

Presence(entries) == [event |-> "presence", hasAgents |-> TRUE, agents |-> entries]
PresenceOf(id, on) == Presence(<<[key |-> id, val |-> [online |-> on]]>>)
NoPresence == [event |-> "presence", hasAgents |-> FALSE, agents |-> <<>>]

TickEvt == [event |-> "tick"]
UnknownEvt == [event |-> "health"]

Compaction(key) ==
    [event |-> "compaction", sessionKey |-> key,
     beforeTokens |-> 12000, afterTokens |-> 4000, droppedMessages |-> 30]

Usage(key, total) ==
    [event |-> "sessions.usage", sessionKey |-> key, hasUsage |-> TRUE,
     usage |-> [totalTokens |-> total]]
NoUsageEvt(key) ==
    [event |-> "sessions.usage", sessionKey |-> key, hasUsage |-> FALSE, usage |-> NoUsage]

StringContent(text) == [kind |-> "string", text |-> text, parts |-> <<>>]
ArrayContent(parts) == [kind |-> "array", text |-> <<>>, parts |-> parts]
AbsentContent == [kind |-> "absent", text |-> <<>>, parts |-> <<>>]

Chat(key, state, runId, role, content) ==
    [event |-> "chat", state |-> state, runId |-> runId, sessionKey |-> key,
     hasMessage |-> TRUE, role |-> role, content |-> content]
ChatNoMessage(key, runId) ==
    [event |-> "chat", state |-> "final", runId |-> runId, sessionKey |-> key,
     hasMessage |-> FALSE, role |-> "", content |-> AbsentContent]

RawEntry(role, content, kind) ==
    [role |-> role, content |-> content, timestamp |-> 0, kind |-> kind]

RawHistories ==
    {<<>>,
     <<RawEntry("user", StringContent(<<"x">>), ""),
       RawEntry("tool", StringContent(<<"x">>), ""),
       RawEntry("system", StringContent(<<"NO_REPLY">>), ""),
       RawEntry("assistant", StringContent(<<"x">>), "compaction"),
       RawEntry("assistant", StringContent(<<" ">>), ""),
       RawEntry("developer", StringContent(<<"x">>), ""),
       RawEntry("", StringContent(<<"x">>), ""),
       RawEntry("assistant", StringContent(<<"HEARTBEAT_OK">>), ""),
       RawEntry("system", ArrayContent(<<[type |-> "text", text |-> <<"y">>]>>), "")>>}

UserText == <<"x">>

-----
(* Bounds on what the environment delivers *)

RECURSIVE TotalMsgs(_)
TotalMsgs(S) == IF S = <<>> THEN 0 ELSE Len(Head(S).val.messages) + TotalMsgs(Tail(S))

TotalPending(p) == p["main"] + p["a"]

WithinBounds(S) ==
    /\ TotalMsgs(S) <= MaxMsgs
    /\ \A i \in 1..Len(S) :
          /\ S[i].val.tokenCount <= MaxText
          /\ \A j \in 1..Len(S[i].val.messages) : Len(S[i].val.messages[j].text) <= MaxText

-----------------------------------------------------------------------------
(* The state after create(): the store's initial values *)

Init ==
    /\ sessions = <<>>
    /\ agents = <<>>
    /\ columnOrder = <<>>
    /\ client = "null"
    /\ clientConnected = FALSE
    /\ gatewayConnected = FALSE
    /\ pendingRuns = [id \in AgentIds |-> 0]
    /\ pendingHistory = <<>>
    /\ issuedRuns = {}
    /\ now = 0
    /\ threw = "none"
    /\ chatsDelivered = 0

Live == client = "client" /\ clientConnected

RECURSIVE createSessions(_)
createSessions(ids) ==
    IF ids = <<>> THEN <<>>
    ELSE Put(createSessions(SubSeq(ids, 1, Len(ids) - 1)),
             ids[Len(ids)], createSession(ids[Len(ids)]))

\* initialize(config): called once, when the application mounts
Initialize(cfg) ==
    /\ client = "null" /\ agents = <<>> /\ sessions = <<>>
    /\ sessions' = createSessions(cfg)
    /\ agents' = cfg
    /\ columnOrder' = cfg
    /\ client' = "client"
    /\ clientConnected' = FALSE
    /\ threw' = "none"
    /\ UNCHANGED <<chatsDelivered, gatewayConnected, pendingRuns, pendingHistory, issuedRuns, now>>

\* The transport opens: client.connected becomes true and onConnection(true) runs
ConnectionUp ==
    /\ client = "client" /\ ~clientConnected
    /\ Len(pendingHistory) + Len(historyWalk(sessions).fetch) <= Cardinality(AgentIds)
    /\ LET S1 == markConnected(sessions)
           walk == historyWalk(S1)
       IN /\ sessions' = S1
          /\ pendingHistory' = pendingHistory \o HistoryRequests(walk.fetch)
          /\ threw' = IF walk.threw THEN "onConnection" ELSE "none"
    /\ clientConnected' = TRUE
    /\ gatewayConnected' = TRUE
    /\ UNCHANGED <<chatsDelivered, agents, columnOrder, client, pendingRuns, issuedRuns, now>>

\* The transport closes: onConnection(false)
ConnectionDown ==
    /\ Live
    /\ clientConnected' = FALSE
    /\ gatewayConnected' = FALSE
    /\ threw' = "none"
    /\ UNCHANGED <<chatsDelivered, sessions, agents, columnOrder, client, pendingRuns, pendingHistory,
                   issuedRuns, now>>

\* disconnect()
Disconnect ==
    /\ client = "client"
    /\ client' = "null"
    /\ clientConnected' = FALSE
    /\ gatewayConnected' = FALSE
    /\ threw' = "none"
    /\ UNCHANGED <<chatsDelivered, sessions, agents, columnOrder, pendingRuns, pendingHistory,
                   issuedRuns, now>>

\* A session object is replaced or destroyed: the requests in flight no longer
\* refer to live text of the session now registered under agentId
ForgetLive(reqs, agentId) ==
    [i \in 1..Len(reqs) |->
        IF reqs[i].agentId = agentId THEN [reqs[i] EXCEPT !.liveText = FALSE] ELSE reqs[i]]

\* addAgent(agent), also the tail of createAgentOnGateway
AddAgent(agentId) ==
    /\ Len(agents) < Cardinality(AgentIds)
    /\ agents' = Append(agents, agentId)
    /\ sessions' = Put(sessions, agentId, createSession(agentId))
    /\ columnOrder' = Append(columnOrder, agentId)
    /\ pendingHistory' = ForgetLive(pendingHistory, agentId)
    /\ threw' = "none"
    /\ UNCHANGED <<chatsDelivered, client, clientConnected, gatewayConnected, pendingRuns, issuedRuns, now>>

\* removeAgent(agentId), also the tail of deleteAgentOnGateway
RemoveAgent(agentId) ==
    /\ agents' = FilterOut(agents, agentId)
    /\ sessions' = Without(sessions, agentId)
    /\ columnOrder' = FilterOut(columnOrder, agentId)
    /\ pendingHistory' = ForgetLive(pendingHistory, agentId)
    /\ threw' = "none"
    /\ UNCHANGED <<chatsDelivered, client, clientConnected, gatewayConnected, pendingRuns, issuedRuns, now>>

Reverse(seq) == [i \in 1..Len(seq) |-> seq[Len(seq) + 1 - i]]

\* reorderColumns(order)
ReorderColumns(order) ==
    /\ columnOrder' = order
    /\ threw' = "none"
    /\ UNCHANGED <<chatsDelivered, sessions, agents, client, clientConnected, gatewayConnected,
                   pendingRuns, pendingHistory, issuedRuns, now>>

-----------------------------------------------------------------------------
(* sendMessage *)

\* sendStart refusing a session whose status is error
sendStartUnlessError(S, agentId, text, t, live) ==
    IF ~live THEN [sessions |-> S, threw |-> FALSE, sent |-> FALSE]
    ELSE IF ~Has(S, agentId) THEN [sessions |-> S, threw |-> FALSE, sent |-> FALSE]
    ELSE LET session == Get(S, agentId) IN
         IF ~session.hasMessages
         THEN [sessions |-> S, threw |-> TRUE, sent |-> FALSE]
         ELSE IF session.status = "error"
         THEN [sessions |-> S, threw |-> FALSE, sent |-> FALSE]
         ELSE [sessions |-> Put(S, agentId,
                   [session EXCEPT
                       !.messages = Append(session.messages, Message("user", text, t, FALSE, NoRun)),
                       !.status = "thinking"]),
               threw |-> FALSE, sent |-> TRUE]

\* sendStart without the test of client.connected
sendStartOffline(S, agentId, text, t, live) ==
    IF ~Has(S, agentId) THEN [sessions |-> S, threw |-> FALSE, sent |-> FALSE]
    ELSE LET session == Get(S, agentId) IN
         IF ~session.hasMessages
         THEN [sessions |-> S, threw |-> TRUE, sent |-> FALSE]
         ELSE [sessions |-> Put(S, agentId,
                   [session EXCEPT
                       !.messages = Append(session.messages, Message("user", text, t, FALSE, NoRun)),
                       !.status = "thinking"]),
               threw |-> FALSE, sent |-> TRUE]

\* The synchronous part, up to `await client.runAgent(...)`:
\* sent says whether the request was issued
sendStart(S, agentId, text, t, live) ==
    IF ~live THEN [sessions |-> S, threw |-> FALSE, sent |-> FALSE]
    ELSE IF ~Has(S, agentId) THEN [sessions |-> S, threw |-> FALSE, sent |-> FALSE]
    ELSE LET session == Get(S, agentId) IN
         IF ~session.hasMessages                      \* [...undefined, userMsg]
         THEN [sessions |-> S, threw |-> TRUE, sent |-> FALSE]
         ELSE [sessions |-> Put(S, agentId,
                   [session EXCEPT
                       !.messages = Append(session.messages, Message("user", text, t, FALSE, NoRun)),
                       !.status = "thinking"]),
               threw |-> FALSE, sent |-> TRUE]

\* sendFailed returning the session to idle
sendFailedIdle(S, agentId) == setAgentStatus(S, agentId, "idle")

\* catch (err): status "error"
sendFailed(S, agentId) == setAgentStatus(S, agentId, "error")

\* After the await: the placeholder for the run the gateway started. A session
\* that is gone, or has no messages array, raises inside the try block.
sendResolved(S, agentId, runId, t) ==
    IF ~Has(S, agentId) \/ ~Get(S, agentId).hasMessages THEN sendFailed(S, agentId)
    ELSE LET session == Get(S, agentId) IN
         Put(S, agentId,
             [session EXCEPT
                 !.messages = Append(session.messages, Message("assistant", <<>>, t, TRUE, runId)),
                 !.activeRunId = runId,
                 !.status = "streaming"])

SendMessage(agentId, text) ==
    LET r == sendStart(sessions, agentId, text, now, Live) IN
    /\ WithinBounds(r.sessions)
    /\ r.sent => TotalPending(pendingRuns) < MaxPending
    /\ sessions' = r.sessions
    /\ pendingRuns' = IF r.sent THEN [pendingRuns EXCEPT ![agentId] = @ + 1] ELSE pendingRuns
    /\ threw' = IF r.threw THEN "sendMessage" ELSE "none"
    /\ UNCHANGED <<chatsDelivered, agents, columnOrder, client, clientConnected, gatewayConnected,
                   pendingHistory, issuedRuns, now>>

\* The gateway answers runAgent with a run id it has not given out before
RunResolved(agentId, runId) ==
    /\ Live
    /\ pendingRuns[agentId] > 0
    /\ runId \notin issuedRuns
    /\ sessions' = sendResolved(sessions, agentId, runId, now)
    /\ pendingRuns' = [pendingRuns EXCEPT ![agentId] = @ - 1]
    /\ issuedRuns' = issuedRuns \cup {runId}
    /\ threw' = "none"
    /\ UNCHANGED <<chatsDelivered, agents, columnOrder, client, clientConnected, gatewayConnected,
                   pendingHistory, now>>

\* runAgent is rejected: an error frame, a timeout or a lost connection
RunRejected(agentId) ==
    /\ pendingRuns[agentId] > 0
    /\ sessions' = sendFailed(sessions, agentId)
    /\ pendingRuns' = [pendingRuns EXCEPT ![agentId] = @ - 1]
    /\ threw' = "none"
    /\ UNCHANGED <<chatsDelivered, agents, columnOrder, client, clientConnected, gatewayConnected,
                   pendingHistory, issuedRuns, now>>

-----------------------------------------------------------------------------
(* chat.history continuations *)

HistoryResolved(i, raw) ==
    /\ Live
    /\ i \in 1..Len(pendingHistory)
    /\ sessions' = historyLoaded(sessions, pendingHistory[i].agentId, raw, now)
    /\ WithinBounds(sessions')
    /\ pendingHistory' = RemoveAt(pendingHistory, i)
    /\ threw' = "none"
    /\ UNCHANGED <<chatsDelivered, agents, columnOrder, client, clientConnected, gatewayConnected,
                   pendingRuns, issuedRuns, now>>

HistoryRejected(i) ==
    /\ i \in 1..Len(pendingHistory)
    /\ pendingHistory' = RemoveAt(pendingHistory, i)
    /\ threw' = "none"
    /\ UNCHANGED <<chatsDelivered, sessions, agents, columnOrder, client, clientConnected,
                   gatewayConnected, pendingRuns, issuedRuns, now>>

-----------------------------------------------------------------------------
(* Gateway events *)

IsDelta(e) == e.event = "agent" /\ e.stream = "assistant" /\ e.delta # <<>>

\* The delta was appended to a streaming message of the tracked session
DeltaLands(S, e) ==
    LET agentId == ResolveAgentId(e.sessionKey) IN
    /\ IsDelta(e)
    /\ Has(S, agentId)
    /\ e.runId \in StreamingRuns(Get(S, agentId).messages)

NoteDelta(reqs, S, e) ==
    IF ~IsDelta(e) THEN reqs
    ELSE [i \in 1..Len(reqs) |->
            IF reqs[i].agentId = ResolveAgentId(e.sessionKey)
            THEN [reqs[i] EXCEPT !.deltaSeen = TRUE,
                                 !.liveText = @ \/ DeltaLands(S, e)]
            ELSE reqs[i]]

GatewayEvent(e) ==
    LET r == handleGatewayEvent(sessions, e, now) IN
    /\ Live
    /\ WithinBounds(r.sessions)
    /\ sessions' = r.sessions
    /\ pendingHistory' = NoteDelta(pendingHistory, sessions, e)
    /\ threw' = IF r.threw THEN "handleGatewayEvent" ELSE "none"
    /\ chatsDelivered' = IF e.event = "chat" THEN 1 - chatsDelivered ELSE chatsDelivered
    /\ UNCHANGED <<agents, columnOrder, client, clientConnected, gatewayConnected,
                   pendingRuns, issuedRuns, now>>

\* Time passes
AdvanceClock ==
    /\ now + TickMs \in ClockValues
    /\ now' = now + TickMs
    /\ UNCHANGED <<chatsDelivered, sessions, agents, columnOrder, client, clientConnected,
                   gatewayConnected, pendingRuns, pendingHistory, issuedRuns, threw>>

-----------------------------------------------------------------------------
(* Spec: the run life cycle of one column. The column "a" is registered,     *)
(* the gateway connects, the user sends, and the gateway answers and         *)
(* delivers the events of runs of that column, in any order.                 *)

KeyA == SessionKeyOf("a")

Setup == Initialize(<<"a">>)
Send == SendMessage("a", UserText)
SendAnswered == \E runId \in RunIds : RunResolved("a", runId)
SendRefused == RunRejected("a")
RunEvent == \E e \in RunEvents({KeyA}) : GatewayEvent(e)

Next ==
    \/ Setup
    \/ ConnectionUp
    \/ Send
    \/ SendAnswered
    \/ SendRefused
    \/ RunEvent

Spec == Init /\ [][Next]_vars

-----------------------------------------------------------------------------
(* Claims checked under Spec *)

Tracked(S, id) == Has(S, id) /\ Get(S, id).hasMessages

MsgsOf(S, id) == IF Has(S, id) THEN Get(S, id).messages ELSE <<>>

CountRun(msgs, runId) == Cardinality({i \in 1..Len(msgs) : msgs[i].runId = runId})

\* C1: in every reachable state a session's message list holds at most one
\* message carrying any given runId, whatever the order in which the
\* startRun response and the gateway's events for the run are processed.
C1_OneMessagePerRun ==
    \A id \in AgentIds, r \in RunIds : CountRun(MsgsOf(sessions, id), r) <= 1

\* The session fields a lifecycle-end may touch
RunView(S, id) ==
    [messages |-> Get(S, id).messages, status |-> Get(S, id).status,
     activeRunId |-> Get(S, id).activeRunId]

Unsealed(msgs, runId) == \E i \in 1..Len(msgs) : msgs[i].runId = runId /\ msgs[i].streaming

\* C4: a lifecycle-end whose runId matches no message of the target session,
\* or only sealed ones, leaves the session's messages, status and
\* activeRunId as they were.
C4_EndOfUnknownRunIsNoOp ==
    [][\A r \in RunIds :
          (/\ GatewayEvent(LifecycleEnd(KeyA, r))
           /\ Tracked(sessions, "a")
           /\ ~Unsealed(Get(sessions, "a").messages, r))
          => /\ Has(sessions', "a")
             /\ RunView(sessions', "a") = RunView(sessions, "a")]_vars

\* C5: processing lifecycle-end for the same runId and session twice in a row
\* leaves the sessions exactly as processing it once does, from every
\* reachable state and for every runId and session key.
C5_SealTwiceIsSealOnce ==
    \A key \in {KeyA, AbsentKey}, r \in RunIds :
        LET once == handleGatewayEvent(sessions, LifecycleEnd(key, r), now)
            twice == handleGatewayEvent(once.sessions, LifecycleEnd(key, r), now)
        IN /\ ~once.threw /\ ~twice.threw
           /\ twice.sessions = once.sessions

\* A run has been sealed by a lifecycle-end while another one still streams
C5_Witness ==
    /\ Tracked(sessions, "a")
    /\ Get(sessions, "a").status = "idle"
    /\ \E r \in RunIds :
          /\ HasRun(Get(sessions, "a").messages, r)
          /\ ~Unsealed(Get(sessions, "a").messages, r)
    /\ \E r \in RunIds : Unsealed(Get(sessions, "a").messages, r)

\* The runs of a session started by sendMessage that have not ended: the
\* requests awaiting their runId and the issued runs that still stream
LocalRunsInFlight(id) ==
    pendingRuns[id]
    + Cardinality({r \in issuedRuns : Unsealed(MsgsOf(sessions, id), r)})

\* C6: a session never has two runs started by sendMessage in flight or
\* streaming at once.
C6_OneLocalRunPerSession ==
    \A id \in AgentIds : LocalRunsInFlight(id) <= 1

-----------------------------------------------------------------------------
(* SpecPresence: runs the gateway starts on the column "a" while presence    *)
(* events report its agent going offline and online.                         *)

StreamEvent ==
    \E r \in RunIds :
        \E e \in {LifecycleStart(KeyA, r), Delta(KeyA, r), LifecycleEnd(KeyA, r)} :
            GatewayEvent(e)

PresenceEvent == \E on \in BOOLEAN : GatewayEvent(PresenceOf("a", on))

NextPresence ==
    \/ Setup
    \/ ConnectionUp
    \/ StreamEvent
    \/ PresenceEvent

SpecPresence == Init /\ [][NextPresence]_vars

\* The messages after chunk has been appended to the streaming message of runId
WithChunk(msgs, runId, chunk) ==
    [i \in 1..Len(msgs) |->
        IF msgs[i].runId = runId /\ msgs[i].streaming
        THEN [msgs[i] EXCEPT !.text = @ \o chunk]
        ELSE msgs[i]]

\* C3: a presence event marking the agent offline while its session streams
\* sets status to disconnected and connected to false; a later delta for the
\* still-streaming run is appended to its message and leaves the status
\* disconnected.
C3_PresenceOverride ==
    [][/\ (/\ GatewayEvent(PresenceOf("a", FALSE))
           /\ Tracked(sessions, "a")
           /\ Get(sessions, "a").status = "streaming")
          => /\ Get(sessions', "a").status = "disconnected"
             /\ ~Get(sessions', "a").connected
       /\ \A r \in RunIds :
             (/\ GatewayEvent(Delta(KeyA, r))
              /\ Tracked(sessions, "a")
              /\ Get(sessions, "a").status = "disconnected"
              /\ Unsealed(Get(sessions, "a").messages, r))
             => /\ Get(sessions', "a").messages = WithChunk(Get(sessions, "a").messages, r, Chunk)
                /\ Get(sessions', "a").status = "disconnected"]_vars

-----------------------------------------------------------------------------
(* SpecHistory: the cold-start backfill. The gateway connects, drops and     *)
(* reconnects; the chat.history requests issued on connection are answered   *)
(* or fail at any later time, while the gateway starts, streams and ends     *)
(* runs, and the column is removed and added again.                          *)

HistoryAnswered ==
    \E i \in 1..Len(pendingHistory), raw \in RawHistories : HistoryResolved(i, raw)
HistoryFailed == \E i \in 1..Len(pendingHistory) : HistoryRejected(i)
LiveEvent ==
    \E r \in RunIds :
        \E e \in {LifecycleStart(KeyA, r), Delta(KeyA, r), LifecycleEnd(KeyA, r)} :
            GatewayEvent(e)
ColumnRemoved == RemoveAgent("a")
ColumnAdded == AddAgent("a")

NextHistory ==
    \/ Setup
    \/ ConnectionUp
    \/ ConnectionDown
    \/ HistoryAnswered
    \/ HistoryFailed
    \/ LiveEvent
    \/ ColumnRemoved
    \/ ColumnAdded

SpecHistory == Init /\ [][NextHistory]_vars

\* The step answers the i-th chat.history request in flight
Answers(i) == \E raw \in RawHistories : HistoryResolved(i, raw)

\* C2 as stated: if a live delta for the session was processed after its
\* history fetch was issued, the fetch's result is discarded when it
\* resolves: the session's messages stay those the live events produced.
C2_DeltaDiscardsHistory ==
    [][\A i \in 1..Len(pendingHistory) :
          (Answers(i) /\ pendingHistory[i].deltaSeen)
          => MsgsOf(sessions', pendingHistory[i].agentId)
                = MsgsOf(sessions, pendingHistory[i].agentId)]_vars

\* C2 as amended: if a live delta was appended to a streaming message of the
\* session after its history fetch was issued, and the session has not been
\* removed or replaced since, the fetch's result is discarded when it
\* resolves: the session still exists and its messages are unchanged.
C2_LiveTextDiscardsHistory ==
    [][\A i \in 1..Len(pendingHistory) :
          (Answers(i) /\ pendingHistory[i].liveText)
          => /\ Tracked(sessions', pendingHistory[i].agentId)
             /\ Get(sessions', pendingHistory[i].agentId).messages
                   = Get(sessions, pendingHistory[i].agentId).messages
             /\ Get(sessions, pendingHistory[i].agentId).messages # <<>>]_vars

\* A history request is in flight for a session into whose streaming message
\* a delta has been appended since
C2_Witness ==
    \E i \in 1..Len(pendingHistory) :
        /\ pendingHistory[i].liveText
        /\ Live
        /\ Tracked(sessions, pendingHistory[i].agentId)
        /\ \E j \in 1..Len(Get(sessions, pendingHistory[i].agentId).messages) :
              Get(sessions, pendingHistory[i].agentId).messages[j].text = Chunk

-----------------------------------------------------------------------------
(* SpecRegistry: the session registry. The column "a" is removed and added   *)
(* while its sends are in flight, and the gateway delivers events for "a"    *)
(* and for the default route "main", which is never registered.              *)

RouteKeys == {KeyA, AbsentKey}

RoutedEvents(key) ==
    {Delta(key, 1), LifecycleStart(key, 1), Compaction(key),
     Chat(key, "final", NoRun, "assistant", StringContent(<<"y">>))}

SendSettled == RunRejected("a") \/ RunResolved("a", 1)
RoutedEvent == \E key \in RouteKeys : \E e \in RoutedEvents(key) : GatewayEvent(e)
UnroutedEvent == \E e \in {TickEvt, UnknownEvt} : GatewayEvent(e)

NextRegistry ==
    \/ Setup
    \/ ConnectionUp
    \/ ColumnRemoved
    \/ ColumnAdded
    \/ Send
    \/ SendSettled
    \/ RoutedEvent
    \/ UnroutedEvent

SpecRegistry == Init /\ [][NextRegistry]_vars

\* The step processes an event whose session key resolves to an id that is
\* not a session of the registry
UntrackedEvent ==
    \E key \in RouteKeys :
        /\ ~Has(sessions, ResolveAgentId(key))
        /\ \E e \in RoutedEvents(key) : GatewayEvent(e)

\* C7: an event for an id that is no tracked session leaves the registry
\* unchanged, and the keys of `sessions` are always exactly the ids of the
\* registered agents.
C7_RegistryIsRegisteredAgents ==
    [][/\ UntrackedEvent => sessions' = sessions
       /\ KeySet(sessions') = Range(agents')]_vars

\* C8: handleGatewayEvent never raises, whatever the event and the state, and
\* a tick or an unrecognized kind leaves the store unchanged.
C8_EventsNeverRaise ==
    [][/\ threw' # "handleGatewayEvent"
       /\ (GatewayEvent(TickEvt) \/ GatewayEvent(UnknownEvt))
          => UNCHANGED <<sessions, agents, columnOrder, client, gatewayConnected>>]_vars

-----------------------------------------------------------------------------
(* SpecChat: server-pushed chat turns. Time passes while the gateway pushes  *)
(* chat events of every state, role and content for the column "a", with a   *)
(* runId or without, and the user sends.                                     *)

\* Turns of other roles, blank turns and heartbeats
OtherPayloads ==
    {[role |-> "user", content |-> StringContent(<<"x">>)],
     [role |-> "tool", content |-> StringContent(<<"x">>)],
     [role |-> "function", content |-> StringContent(<<"x">>)],
     [role |-> "assistant", content |-> StringContent(<<" ">>)],
     [role |-> "assistant", content |-> StringContent(<<"heartbeat">>)],
     [role |-> "assistant", content |-> AbsentContent]}

ChatFinals ==
    {Chat(KeyA, "final", r, "assistant", StringContent(<<"x">>)) : r \in RunIds \cup {NoRun}}
    \cup {Chat(KeyA, "final", NoRun, "system", StringContent(<<"x">>)),
          Chat(KeyA, "final", NoRun, "assistant", StringContent(<<"NO_REPLY">>)),
          Chat(KeyA, "final", 1, "assistant",
               ArrayContent(<<[type |-> "image", text |-> <<"x">>],
                              [type |-> "text", text |-> <<>>],
                              [type |-> "text", text |-> <<"y">>]>>))}
    \cup {Chat(KeyA, "final", 2, p.role, p.content) : p \in OtherPayloads}

ChatOthers ==
    {Chat(KeyA, st, 1, "assistant", StringContent(<<"x">>)) : st \in {"delta", "error", "aborted"}}
    \cup {ChatNoMessage(KeyA, 1)}

ChatFinal == \E e \in ChatFinals : GatewayEvent(e)
ChatOther == \E e \in ChatOthers : GatewayEvent(e)

NextChat ==
    \/ Setup
    \/ ConnectionUp
    \/ AdvanceClock
    \/ Send
    \/ ChatFinal
    \/ ChatOther

SpecChat == Init /\ [][NextChat]_vars

Last(seq) == seq[Len(seq)]

Announcement(e) == Message("announcement", ExtractText(e.content), now, FALSE, e.runId)

\* The step processes the chat final event e, from an assistant or system
\* turn, while the last message of "a" is an announcement with the same text
SecondOfTwo(e) ==
    /\ chatsDelivered' # chatsDelivered
    /\ e.role \in {"assistant", "system"}
    /\ Tracked(sessions, "a")
    /\ Get(sessions, "a").messages # <<>>
    /\ Last(Get(sessions, "a").messages).role = "announcement"
    /\ Last(Get(sessions, "a").messages).text = ExtractText(e.content)
    /\ GatewayEvent(e)

InWindow == now - Last(Get(sessions, "a").messages).timestamp < RecencyWindow

\* C9 as stated: the second of two chat final events with identical text
\* adds no message within the recency window of the first and adds one
\* announcement once the window has expired.
C9_DedupWindow ==
    [][\A e \in ChatFinals :
          SecondOfTwo(e)
          => Get(sessions', "a").messages =
                IF InWindow THEN Get(sessions, "a").messages
                ELSE Append(Get(sessions, "a").messages, Announcement(e))]_vars

\* C9 as amended: within the window the second event adds no message; once
\* the window has expired it adds one announcement, provided its runId is
\* absent or carried by no message of the session; a second event that
\* repeats a tracked runId adds nothing whatever the time.
C9_DedupWindowUntrackedRun ==
    [][\A e \in ChatFinals :
          SecondOfTwo(e)
          => Get(sessions', "a").messages =
                IF InWindow \/ (e.runId # NoRun /\ HasRun(Get(sessions, "a").messages, e.runId))
                THEN Get(sessions, "a").messages
                ELSE Append(Get(sessions, "a").messages, Announcement(e))]_vars

\* Two announcements with the same text, the second one window after the first
C9_Witness ==
    /\ Tracked(sessions, "a")
    /\ \E i \in 1..(Len(Get(sessions, "a").messages) - 1) :
          LET first == Get(sessions, "a").messages[i]
              second == Get(sessions, "a").messages[i + 1]
          IN /\ first.role = "announcement" /\ second.role = "announcement"
             /\ first.text = second.text
             /\ second.timestamp - first.timestamp >= RecencyWindow

\* The heartbeat / no-reply sentinel pattern of the specification
SentinelPattern(text) == Mentions(text, HeartbeatWords \cup NoReplyWords)

\* C10: a chat event appends a message, an announcement, only if its state
\* is final, its role assistant or system, its text non-empty after trimming
\* and free of the heartbeat/no-reply sentinels, and its runId not yet
\* carried by a message; in every other case the session is unchanged.
C10_ChatWhitelist ==
    [][\A e \in ChatFinals \cup ChatOthers :
          (chatsDelivered' # chatsDelivered /\ Tracked(sessions, "a") /\ GatewayEvent(e))
          => LET msgs == Get(sessions, "a").messages
                 text == ExtractText(e.content)
                 admitted ==
                     /\ e.state = "final"
                     /\ e.hasMessage
                     /\ e.role \in {"assistant", "system"}
                     /\ Trim(text) # <<>>
                     /\ ~SentinelPattern(text)
                     /\ ~(e.runId # NoRun /\ HasRun(msgs, e.runId))
             IN /\ ~admitted => sessions' = sessions
                /\ sessions' # sessions
                   => Get(sessions', "a") =
                         [Get(sessions, "a") EXCEPT !.messages = Append(msgs, Announcement(e))]]_vars

-----------------------------------------------------------------------------
(* Delta ordering, checked in every state of SpecPresence: the deltas of a   *)
(* run are handed to handleGatewayEvent one after the other.                 *)

\* The texts a delta may carry
Chunks == {<<"x">>, <<"y">>, <<"x", "y">>}

\* The sequences of at most MaxDeltas chunks
ChunkRuns == UNION {[1..n -> Chunks] : n \in 0..MaxDeltas}

\* handleGatewayEvent applied to the deltas of runId carrying chunks, in order
RECURSIVE DeliverDeltas(_, _, _, _)
DeliverDeltas(S, key, runId, chunks) ==
    IF chunks = <<>> THEN Done(S)
    ELSE LET r == handleGatewayEvent(S, AgentEvt(key, runId, "assistant", Head(chunks), ""), now)
         IN IF r.threw THEN r ELSE DeliverDeltas(r.sessions, key, runId, Tail(chunks))

\* C11: N deltas with the same runId, delivered in order to a session holding
\* a streaming message with that runId, leave that message's text equal to
\* its prior text followed by the concatenation of the deltas in delivery
\* order, however the text is cut into chunks; no other message changes.
C11_DeltaOrdering ==
    \A r \in RunIds, chunks \in ChunkRuns :
        (Tracked(sessions, "a") /\ Unsealed(Get(sessions, "a").messages, r))
        => LET after == DeliverDeltas(sessions, KeyA, r, chunks)
           IN /\ ~after.threw
              /\ Get(after.sessions, "a").messages
                    = WithChunk(Get(sessions, "a").messages, r, Join(chunks))

\* A delta has been appended to a message that is still streaming, next to
\* a message of another run
C11_Witness ==
    /\ Tracked(sessions, "a")
    /\ \E i, j \in 1..Len(Get(sessions, "a").messages) :
          /\ Get(sessions, "a").messages[i].streaming
          /\ Get(sessions, "a").messages[i].text = Chunk
          /\ Get(sessions, "a").messages[j].runId # Get(sessions, "a").messages[i].runId

-----------------------------------------------------------------------------
(* Further claims checked under Spec *)

\* C12: a delta whose runId matches no streaming message of the target
\* session leaves the message list as it was, raises no error, and sets the
\* session's status to streaming.
C12_UnmatchedDeltaIsDropped ==
    [][\A r \in RunIds :
          (/\ sessions' # sessions
           /\ Tracked(sessions, "a")
           /\ ~Unsealed(Get(sessions, "a").messages, r)
           /\ GatewayEvent(Delta(KeyA, r)))
          => /\ Tracked(sessions', "a")
             /\ Get(sessions', "a").messages = Get(sessions, "a").messages
             /\ Get(sessions', "a").status = "streaming"
             /\ threw' = "none"]_vars

\* A delta was processed for a run that had no streaming message: the
\* session streams and has counted the chunk, no message holds it, and a
\* message of another run is still streaming
C12_Witness ==
    /\ Tracked(sessions, "a")
    /\ Get(sessions, "a").status = "streaming"
    /\ Get(sessions, "a").tokenCount = Len(Chunk)
    /\ \A i \in 1..Len(Get(sessions, "a").messages) : Get(sessions, "a").messages[i].text = <<>>
    /\ \E i \in 1..Len(Get(sessions, "a").messages) : Get(sessions, "a").messages[i].streaming

\* C17: a lifecycle-start for run r on a tracked session with no message of
\* r appends one placeholder (empty text, streaming, runId r) whose role is
\* announcement if the status was idle and assistant otherwise; with a
\* message of r present it adds nothing; either way the status is thinking.
C17_StartPlaceholder ==
    [][\A r \in RunIds :
          (/\ Tracked(sessions, "a")
           /\ GatewayEvent(LifecycleStart(KeyA, r)))
          => /\ Tracked(sessions', "a")
             /\ Get(sessions', "a").status = "thinking"
             /\ Get(sessions', "a").messages =
                   IF HasRun(Get(sessions, "a").messages, r)
                   THEN Get(sessions, "a").messages
                   ELSE Append(Get(sessions, "a").messages,
                               Message(IF Get(sessions, "a").status = "idle"
                                       THEN "announcement" ELSE "assistant",
                                       <<>>, now, TRUE, r))]_vars

\* Lifecycle-starts have appended an announcement placeholder and, after it,
\* an assistant placeholder
C17_Witness ==
    /\ Tracked(sessions, "a")
    /\ Get(sessions, "a").status = "thinking"
    /\ \E i, j \in 1..Len(Get(sessions, "a").messages) :
          /\ i < j
          /\ Get(sessions, "a").messages[i].role = "announcement"
          /\ Get(sessions, "a").messages[i].streaming
          /\ Get(sessions, "a").messages[j].role = "assistant"
          /\ Get(sessions, "a").messages[j].streaming
          /\ Get(sessions, "a").activeRunId = Get(sessions, "a").messages[j].runId

\* The messages with those of runId sealed
Sealed(msgs, runId) ==
    [i \in 1..Len(msgs) |->
        IF msgs[i].runId = runId THEN [msgs[i] EXCEPT !.streaming = FALSE] ELSE msgs[i]]

\* C18: a lifecycle-end for run r on a session holding a streaming message of
\* r seals that message, clears activeRunId and sets the status to idle; no
\* other message and no text changes.
C18_EndSeals ==
    [][\A r \in RunIds :
          (/\ Tracked(sessions, "a")
           /\ Unsealed(Get(sessions, "a").messages, r)
           /\ GatewayEvent(LifecycleEnd(KeyA, r)))
          => /\ Tracked(sessions', "a")
             /\ Get(sessions', "a").messages = Sealed(Get(sessions, "a").messages, r)
             /\ Get(sessions', "a").activeRunId = NoRun
             /\ Get(sessions', "a").status = "idle"]_vars

\* A run that received a delta has been sealed: the session is idle and has
\* no active run
C18_Witness ==
    /\ Tracked(sessions, "a")
    /\ Get(sessions, "a").status = "idle"
    /\ Get(sessions, "a").activeRunId = NoRun
    /\ \E i \in 1..Len(Get(sessions, "a").messages) :
          /\ Get(sessions, "a").messages[i].runId \in RunIds
          /\ ~Get(sessions, "a").messages[i].streaming
          /\ Get(sessions, "a").messages[i].text = Chunk

\* C19: when runAgent is rejected the session's status becomes error and no
\* placeholder is created for the send; the user message it appended stays.
C19_FailedSend ==
    [][(/\ Tracked(sessions, "a")
        /\ pendingRuns' # pendingRuns
        /\ SendRefused)
       => /\ Tracked(sessions', "a")
          /\ Get(sessions', "a").status = "error"
          /\ Get(sessions', "a").messages = Get(sessions, "a").messages
          /\ \E i \in 1..Len(Get(sessions', "a").messages) :
                Get(sessions', "a").messages[i] = Message("user", UserText, now, FALSE, NoRun)]_vars

\* The only send of the session has been refused: the status is error and
\* the user's message is the last one
C19_Witness ==
    /\ Tracked(sessions, "a")
    /\ Get(sessions, "a").status = "error"
    /\ pendingRuns["a"] = 0
    /\ Get(sessions, "a").messages # <<>>
    /\ Last(Get(sessions, "a").messages).role = "user"

\* C20: a session whose status is error accepts sendMessage: the send is
\* issued, the status is thinking while the answer is awaited, and streaming
\* once runAgent has answered.
C20_SendAfterError ==
    [][/\ (Live /\ Tracked(sessions, "a") /\ Get(sessions, "a").status = "error")
          => sendStart(sessions, "a", UserText, now, Live).sent
       /\ (/\ Tracked(sessions, "a")
           /\ Get(sessions, "a").status = "error"
           /\ Send)
          => /\ Get(sessions', "a").status = "thinking"
             /\ Get(sessions', "a").messages =
                   Append(Get(sessions, "a").messages, Message("user", UserText, now, FALSE, NoRun))
             /\ pendingRuns'["a"] = pendingRuns["a"] + 1
       /\ (Tracked(sessions, "a") /\ SendAnswered)
          => /\ Get(sessions', "a").status = "streaming"
             /\ Get(sessions', "a").activeRunId \in issuedRuns']_vars

\* A send was refused and the next send is awaiting its answer: two user
\* messages, one request in flight, status thinking
C20_Witness ==
    /\ Tracked(sessions, "a")
    /\ Get(sessions, "a").status = "thinking"
    /\ pendingRuns["a"] = 1
    /\ Len(Get(sessions, "a").messages) = 2
    /\ \A i \in 1..2 : Get(sessions, "a").messages[i].role = "user"

\* The sessions after the lifecycle-end of runId is processed and then, if a
\* send of the column awaits its answer and the gateway answers it with
\* runId, after the continuation of that send
EndThenAnswer(runId) ==
    LET ended == handleGatewayEvent(sessions, LifecycleEnd(KeyA, runId), now).sessions
    IN IF pendingRuns["a"] > 0 /\ runId \notin issuedRuns
       THEN sendResolved(ended, "a", runId, now)
       ELSE ended

\* C15: once the lifecycle-end of run r has been processed for a session, no
\* message of the session with runId r is streaming afterwards, also when
\* the continuation of the send that started r runs after the lifecycle-end.
C15_EndedRunStaysSealed ==
    \A r \in RunIds :
        (Live /\ Tracked(sessions, "a"))
        => ~Unsealed(Get(EndThenAnswer(r), "a").messages, r)

-----------------------------------------------------------------------------
(* Further claims checked under SpecHistory *)

\* The messages of old are still there, in the same places; only the text
\* and the streaming flag of those that were streaming may differ
PrefixKept(old, new) ==
    /\ Len(old) <= Len(new)
    /\ \A i \in 1..Len(old) :
          /\ [new[i] EXCEPT !.text = old[i].text, !.streaming = old[i].streaming] = old[i]
          /\ ~old[i].streaming => new[i] = old[i]

\* C16: while a session exists its message list is append-only: every
\* operation that leaves the session in place, addAgent of its own id
\* included, keeps the messages present before it as a prefix of the list.
C16_AppendOnly ==
    [][\A id \in AgentIds :
          (Tracked(sessions, id) /\ Has(sessions', id))
          => PrefixKept(Get(sessions, id).messages, Get(sessions', id).messages)]_vars

-----------------------------------------------------------------------------
(* SpecTimeline: everything that writes to the timeline of the column "a"    *)
(* at once: the history backfill, sends and their answers, the events of a   *)
(* run, chat turns and compaction markers, until the column is removed.      *)

TimelineEvents ==
    {LifecycleStart(KeyA, 1), Delta(KeyA, 1), LifecycleEnd(KeyA, 1),
     Chat(KeyA, "final", 1, "assistant", StringContent(<<"y">>)),
     Compaction(KeyA)}

TimelineEvent == \E e \in TimelineEvents : GatewayEvent(e)

NextTimeline ==
    \/ Setup
    \/ ConnectionUp
    \/ HistoryAnswered
    \/ Send
    \/ SendAnswered
    \/ TimelineEvent
    \/ ColumnRemoved

SpecTimeline == Init /\ [][NextTimeline]_vars

\* C13: a history result is committed only to a session that still exists
\* and whose message list is empty when the fetch completes; when a live
\* event or a send has added a message in between, the session's messages
\* are left as they are.
C13_LateHistoryNeverReplaces ==
    [][\A i \in 1..Len(pendingHistory) :
          Answers(i)
          => LET id == pendingHistory[i].agentId IN
             /\ sessions' # sessions
                => /\ Tracked(sessions, id)
                   /\ Get(sessions, id).messages = <<>>
                   /\ Tracked(sessions', id)
             /\ (Has(sessions, id) /\ Get(sessions, id).messages # <<>>)
                => /\ Has(sessions', id)
                   /\ Get(sessions', id).messages = Get(sessions, id).messages
             /\ ~Has(sessions, id) => ~Has(sessions', id)]_vars

\* A history request is still in flight for a session to which a send has
\* added the user's message
C13_Witness ==
    \E i \in 1..Len(pendingHistory) :
        /\ Live
        /\ Tracked(sessions, pendingHistory[i].agentId)
        /\ Get(sessions, pendingHistory[i].agentId).messages # <<>>
        /\ Last(Get(sessions, pendingHistory[i].agentId).messages).role = "user"

\* C14: a sealed message that stays in the list is never streaming again and
\* keeps its text, whatever the operation.
C14_SealedIsFinal ==
    [][\A i \in 1..Len(MsgsOf(sessions, "a")) :
          (/\ ~MsgsOf(sessions, "a")[i].streaming
           /\ i <= Len(MsgsOf(sessions', "a")))
          => /\ ~MsgsOf(sessions', "a")[i].streaming
             /\ MsgsOf(sessions', "a")[i].text = MsgsOf(sessions, "a")[i].text]_vars

\* A message that received a delta has been sealed and is followed by a
\* later message
C14_Witness ==
    \E i \in 1..(Len(MsgsOf(sessions, "a")) - 1) :
        /\ ~MsgsOf(sessions, "a")[i].streaming
        /\ MsgsOf(sessions, "a")[i].runId # NoRun
        /\ MsgsOf(sessions, "a")[i].text = Chunk

-----------------------------------------------------------------------------
(* SpecLink: the transport opens, drops and reopens, and disconnect() is     *)
(* called, while the column "a" sends and streams and is removed; sends are  *)
(* also made for "main", which has no session.                               *)

SendElsewhere == SendMessage("main", UserText)

LinkEvent ==
    \E e \in {LifecycleStart(KeyA, 1), Delta(KeyA, 1), LifecycleEnd(KeyA, 1)} : GatewayEvent(e)

NextLink ==
    \/ Setup
    \/ ConnectionUp
    \/ ConnectionDown
    \/ Disconnect
    \/ Send
    \/ SendElsewhere
    \/ LinkEvent
    \/ ColumnRemoved

SpecLink == Init /\ [][NextLink]_vars

\* The session with its connected flag set
Connected(session) == [session EXCEPT !.connected = TRUE]

\* C21: a connectivity change and disconnect() remove no session and change
\* no session's messages, status or activeRunId; when the transport opens
\* only the connected flag of each session is set.
C21_SessionsSurviveLink ==
    [][/\ (ConnectionDown \/ Disconnect) => sessions' = sessions
       /\ ConnectionUp
          => /\ Keys(sessions') = Keys(sessions)
             /\ \A id \in KeySet(sessions) :
                   Get(sessions', id) = Connected(Get(sessions, id))]_vars

\* The transport has dropped in the middle of a run: the client is there
\* but not connected, and the session still holds its streaming message
C21_Witness ==
    /\ client = "client" /\ ~clientConnected /\ ~gatewayConnected
    /\ Tracked(sessions, "a")
    /\ Get(sessions, "a").connected
    /\ Get(sessions, "a").status = "streaming"
    /\ Get(sessions, "a").activeRunId = 1
    /\ \E i \in 1..Len(Get(sessions, "a").messages) :
          /\ Get(sessions, "a").messages[i].streaming
          /\ Get(sessions, "a").messages[i].text = Chunk

\* C26: sendMessage with no client, with a client that is not connected, or
\* for an id that has no session issues no request, raises nothing and
\* leaves the sessions as they are.
C26_RefusedSendChangesNothing ==
    \A id \in AgentIds :
        (~Live \/ ~Has(sessions, id))
        => sendStart(sessions, id, UserText, now, Live)
              = [sessions |-> sessions, threw |-> FALSE, sent |-> FALSE]

\* disconnect() was called while a send of the column was awaiting its answer
C26_Witness ==
    /\ client = "null"
    /\ Tracked(sessions, "a")
    /\ Get(sessions, "a").status = "thinking"
    /\ pendingRuns["a"] > 0
    /\ Last(Get(sessions, "a").messages).role = "user"

-----------------------------------------------------------------------------
(* Further claims checked under SpecTimeline *)

\* C22: a compaction event for a tracked session appends one message with
\* role compaction that carries the event's beforeTokens, afterTokens and
\* droppedMessages; the messages present, the status and the activeRunId of
\* the session stay as they are.
C22_CompactionMarker ==
    [][(/\ Tracked(sessions, "a")
        /\ GatewayEvent(Compaction(KeyA)))
       => LET before == Get(sessions, "a")
              after == Get(sessions', "a")
          IN /\ Tracked(sessions', "a")
             /\ Len(after.messages) = Len(before.messages) + 1
             /\ SubSeq(after.messages, 1, Len(before.messages)) = before.messages
             /\ Last(after.messages).role = "compaction"
             /\ Last(after.messages).compaction.beforeTokens = Compaction(KeyA).beforeTokens
             /\ Last(after.messages).compaction.afterTokens = Compaction(KeyA).afterTokens
             /\ Last(after.messages).compaction.droppedMessages = Compaction(KeyA).droppedMessages
             /\ after.status = before.status
             /\ after.activeRunId = before.activeRunId
             /\ threw' = "none"]_vars

\* A compaction marker was appended behind the streaming message of a run in
\* progress
C22_Witness ==
    /\ Tracked(sessions, "a")
    /\ Get(sessions, "a").activeRunId # NoRun
    /\ \E i \in 2..Len(Get(sessions, "a").messages) :
          /\ Get(sessions, "a").messages[i].role = "compaction"
          /\ Get(sessions, "a").messages[i].compaction.droppedMessages = 30
          /\ Get(sessions, "a").messages[i - 1].streaming

-----------------------------------------------------------------------------
(* SpecUsage: the gateway reports the usage of the column "a", and of the    *)
(* default route, while a run of the column streams.                         *)

UsageTotals == 0..MaxText

UsageEvent ==
    \/ \E total \in UsageTotals : GatewayEvent(Usage(KeyA, total))
    \/ GatewayEvent(NoUsageEvt(KeyA))
    \/ GatewayEvent(Usage(AbsentKey, 0))

NextUsage ==
    \/ Setup
    \/ ConnectionUp
    \/ StreamEvent
    \/ UsageEvent

SpecUsage == Init /\ [][NextUsage]_vars

\* C24: a usage event for a tracked session stores the event's usage as the
\* session's usage and its totalTokens as tokenCount, whatever the count
\* accumulated from deltas, and changes nothing else of the session.
C24_UsageSupersedes ==
    [][\A total \in UsageTotals :
          (/\ Tracked(sessions, "a")
           /\ GatewayEvent(Usage(KeyA, total)))
          => /\ Get(sessions', "a") =
                   [Get(sessions, "a") EXCEPT !.usage = [totalTokens |-> total],
                                              !.tokenCount = total]
             /\ threw' = "none"]_vars

\* A usage report has lowered the count accumulated from a delta
C24_Witness ==
    /\ Tracked(sessions, "a")
    /\ Get(sessions, "a").usage = [totalTokens |-> 0]
    /\ Get(sessions, "a").tokenCount = 0
    /\ \E i \in 1..Len(Get(sessions, "a").messages) :
          Get(sessions, "a").messages[i].text = Chunk

-----------------------------------------------------------------------------
(* Status, activeRunId and the streaming flags, checked under Spec *)

\* C25: an idle session has no streaming message, a session with no
\* activeRunId has no streaming message, and an activeRunId is the runId of
\* a streaming message of its session.
C25_StatusMatchesStreaming ==
    \A id \in AgentIds :
        Tracked(sessions, id)
        => LET session == Get(sessions, id) IN
           /\ session.status = "idle" => StreamingRuns(session.messages) = {}
           /\ session.activeRunId = NoRun => StreamingRuns(session.messages) = {}
           /\ session.activeRunId # NoRun
              => session.activeRunId \in StreamingRuns(session.messages)

-----------------------------------------------------------------------------
(* SpecPair: two columns side by side. "a" and "main" are both registered;   *)
(* the user sends on either, the gateway settles the sends of "a", and it     *)
(* delivers events for each of the two session keys and presence maps that   *)
(* name one column.                                                          *)

SetupPair == Initialize(<<"a", "main">>)

PairEvents ==
    {LifecycleStart(KeyA, 1), Delta(KeyA, 1),
     Chat(KeyA, "final", NoRun, "assistant", StringContent(<<"y">>)),
     Compaction(AbsentKey), Usage(AbsentKey, 0)}

PairPresences == {PresenceOf(id, FALSE) : id \in AgentIds}

PairEvent == \E e \in PairEvents : GatewayEvent(e)
PairPresence == \E e \in PairPresences : GatewayEvent(e)

NextPair ==
    \/ SetupPair
    \/ ConnectionUp
    \/ Send
    \/ SendElsewhere
    \/ SendSettled
    \/ PairEvent
    \/ PairPresence

SpecPair == Init /\ [][NextPair]_vars

\* The entry of the registry under id: empty when there is none
EntryOf(S, id) == IF Has(S, id) THEN <<Get(S, id)>> ELSE <<>>

\* C23: a step that changes the session B is not an agent, compaction,
\* sessions.usage or chat event of another session, nor a sendMessage on
\* another session or its continuation, nor a presence event whose agents
\* map does not name B.
C23_SessionIsolation ==
    [][\A B \in AgentIds :
          EntryOf(sessions', B) # EntryOf(sessions, B)
          => /\ \A e \in PairEvents : GatewayEvent(e) => ResolveAgentId(e.sessionKey) = B
             /\ \A e \in PairPresences : GatewayEvent(e) => B \in KeySet(e.agents)
             /\ \A A \in AgentIds \ {B} :
                   /\ ~SendMessage(A, UserText)
                   /\ ~RunRejected(A)
                   /\ \A runId \in RunIds : ~RunResolved(A, runId)]_vars

\* "a" went through a refused send and a presence event while "main" waits
\* for the answer to its own send
C23_Witness ==
    /\ Tracked(sessions, "a")
    /\ Tracked(sessions, "main")
    /\ Get(sessions, "a").status = "disconnected"
    /\ Len(Get(sessions, "a").messages) = 2
    /\ Get(sessions, "main").status = "thinking"
    /\ Len(Get(sessions, "main").messages) = 1
    /\ pendingRuns["main"] = 1

=============================================================================
